---- MODULE Spec2Model ----
(***************************************************************************)
(* CodeCompanionManager (src/src/manager.ts): the task orchestrator.       *)
(* Every run of executeTask / runCustomPlan is an async function; the      *)
(* JavaScript event loop runs each stretch of code between two awaits      *)
(* atomically, so one action of this model is one such stretch: from the   *)
(* moment an awaited call settles (or the method is called) up to the next *)
(* await (or the return / rejection of the run).  cancelTask and dispose   *)
(* have no await and are one action each.                                  *)
(*                                                                         *)
(* The collaborators (ContextAnalyzer.analyze, TaskPlanner.createPlan,     *)
(* SafetyValidator.validateStep, CodeExecutor.executeStep) appear by the   *)
(* ways their calls can settle.  Task ids (generateTaskId: timestamp plus  *)
(* random suffix) are taken to be fresh.  dispose() runs at deactivation:  *)
(* runs in flight go on afterwards, but no new call reaches the manager.   *)
(*                                                                         *)
(* TaskPlanner, SafetyValidator and CodeExecutor.executeFileOperation are  *)
(* also modelled on their own, as operators over their inputs: SpecPlanner,*)
(* SpecValidator and SpecExecutor apply them to every input (variable      *)
(* probe); Spec is the manager, and SpecConcurrent is the manager in a     *)
(* session with one task more, so that runs overlap (variable limit).      *)
(* SpecStep applies one pass of the manager's loop body to a step, with    *)
(* the validator and the executor themselves; SpecFair is Spec with every  *)
(* awaited call settling eventually.                                       *)
(***************************************************************************)
EXTENDS Integers, Sequences, FiniteSets, TLC

VARIABLES
    tasks,      \* every Task object created so far; the task id is its index
    active,     \* activeTasks: the ids (keys) of the Map
    history,    \* taskHistory: sequence of TaskResult
    store,      \* globalState['codeCompanion.taskHistory']
    ret,        \* the cancelTask / retryTask call just made: argument and outcome
    disposed,   \* dispose() has been called
    probe,      \* a call of a pure function of the planner, validator or executor
    limit       \* how many tasks the callers of this session submit

vars == <<tasks, active, history, store, ret, disposed, probe, limit>>

----------------------------------------------------------------------------
(* Bounds of the model *)

MaxTasks == 1          \* tasks submitted in one session
MaxSteps == 2          \* steps of a plan

(* Program constant *)
MaxHistory == 50       \* manager.ts:367

----------------------------------------------------------------------------
(* Values *)

None == "none"
CancelMsg == "Task cancelled by user"
CtxErr == "context analysis failed"
PlanErr == "planning failed"
ValErr == "validator threw"
ExecErr == "executor threw"
Reason == "blocked"
SafetyMsg(reason) == "Safety validation failed: " \o reason

NotFoundMsg == "Task not found in history"
AnalyzedContext == "context"

TaskType == {"refactor", "implement", "fix", "review", "test", "document"}
StepStatus == {"pending", "running", "completed", "failed"}
TaskStatus == {"planning", "analyzing", "executing", "completed", "failed", "cancelled"}

\* Statuses the steps handed to runCustomPlan arrive with: a fresh plan, or
\* the steps of a finished TaskResult sent back by the chat's "Edit Plan".
CustomStatus == {"pending", "completed"}

\* A TaskStep.  init, vcalls, vres, ecalls and eres are history fields: the
\* status the step arrived with, the calls of validateStep / executeStep made
\* for it and how each call settled.
\* vctx and ectx are the context values those calls were given.
TaskStep(st) ==
    [status |-> st, error |-> None,
     result |-> IF st = "completed" THEN "r0" ELSE None,
     init |-> st, vcalls |-> 0, vres |-> None, ecalls |-> 0, eres |-> None,
     vctx |-> None, ectx |-> None]

PendingSteps(n) == [k \in 1..n |-> TaskStep("pending")]

CustomPlans ==
    { [k \in 1..n |-> TaskStep(st)] : n \in 0..MaxSteps, st \in CustomStatus }

\* The task types and params the callers of this session submit
\* (extension.ts:102 reviewCode; chat.ts:741 Edit Plan of such a task).
SubmitTypes == {"review"}
SubmitParams == {"params"}

\* A Task, with the position of its run: pc is the await the run is suspended
\* at ("analyze", "plan", "validate", "execute") or "done"; i is the loop index
\* (1-based).  outcome / rejErr are how the call settled; cancelled records
\* that cancelTask returned true for it; analyzeCalls and ctxSet count the
\* calls of contextAnalyzer.analyze and the assignments of task.context;
\* planCalls and llmCalls count the calls of planner.createPlan and of
\* llm.generate.  trail is the sequence of values the run assigned to
\* task.status; unnotified holds the values assigned to task.status since
\* the last updateStatusBar().  executeTask creates the task as 'planning',
\* calls updateStatusBar() and sets 'analyzing' before its first await;
\* runCustomPlan creates it as 'executing' and calls updateStatusBar().
Task(kind, type, params, status, steps) ==
    [kind |-> kind, type |-> type, params |-> params,
     status |-> status, steps |-> steps, error |-> None,
     context |-> None, analyzeCalls |-> 1,
     ctxSet |-> 0, pc |-> "analyze", i |-> 1, results |-> <<>>,
     currentStep |-> 0, progress |-> <<0, 1>>,
     outcome |-> None, rejErr |-> None, cancelled |-> FALSE,
     planCalls |-> 0, llmCalls |-> 0,
     trail |-> IF kind = "execute" THEN <<"planning", status>> ELSE <<status>>,
     unnotified |-> IF kind = "execute" THEN {status} ELSE {}]

Ids == 1..Len(tasks)

\* The history a previous session persisted: a full history of MaxHistory
\* records of tasks with ids below 1, oldest first.
OldResult(k) ==
    [taskId |-> k - MaxHistory, type |-> "review", params |-> "params",
     success |-> TRUE, error |-> None, nresults |-> 1]
PersistedHistory == [k \in 1..MaxHistory |-> OldResult(k)]

NoCall == [id |-> 0, value |-> None]
NoProbe == [fn |-> None, args |-> <<>>, out |-> <<>>]

InHistory(id) == \E k \in 1..Len(history) : history[k].taskId = id

----------------------------------------------------------------------------
(* TaskPlanner (src/unnamed/part_002) *)

\* A planned step: the fields parsePlanResponse / createDefaultPlan give it.
PlanStep(id, type) == [id |-> id, type |-> type, status |-> "pending"]

StepId(index) == "step_" \o ToString(index)

\* How llm.generate(prompt) settles.  It throws, or it returns a text: json
\* says what /\{[\s\S]*\}/ and JSON.parse find in it ("none": no match,
\* "malformed": a match that does not parse, "object": an object), steps says
\* what parsed.steps is ("missing", "notArray", "array"), items are the
\* elements of the array, estimatedDuration is parsed.estimatedDuration with
\* 0 for an absent (or falsy) one.
LlmThrows == [kind |-> "throws", json |-> "none", steps |-> "missing",
              items |-> <<>>, estimatedDuration |-> 0]
LlmText(json, steps, items, d) ==
    [kind |-> "text", json |-> json, steps |-> steps,
     items |-> items, estimatedDuration |-> d]

\* An element of parsed.steps: null, or an object with or without id and type
\* (whatever status it carries is ignored).
NullItem == [null |-> TRUE, id |-> None, type |-> None]
BareItem == [null |-> FALSE, id |-> None, type |-> None]
FullItem == [null |-> FALSE, id |-> "custom", type |-> "terminal_command"]
LlmItems == {NullItem, BareItem, FullItem}

LlmDurations == {0, 120}

LlmResponses ==
    {LlmThrows, LlmText("none", "missing", <<>>, 0), LlmText("malformed", "missing", <<>>, 0)}
    \cup { LlmText("object", sk, <<>>, d) : sk \in {"missing", "notArray"}, d \in LlmDurations }
    \cup { LlmText("object", "array", items, d) :
             items \in UNION { [1..n -> LlmItems] : n \in 0..MaxSteps },
             d \in LlmDurations }

\* The outcome of a planner call: a plan, or a throw.
Plan(steps, d) == [threw |-> FALSE, steps |-> steps, estimatedDuration |-> d]
PlanThrown == [threw |-> TRUE, steps |-> <<>>, estimatedDuration |-> 0]

parsePlanResponse(response) ==
    IF \/ response.json # "object"
       \/ response.steps # "array"
       \/ \E k \in 1..Len(response.items) : response.items[k].null
    THEN PlanThrown
    ELSE Plan([k \in 1..Len(response.items) |->
                 PlanStep(IF response.items[k].id # None
                          THEN response.items[k].id ELSE StepId(k),
                          IF response.items[k].type # None
                          THEN response.items[k].type ELSE "analysis")],
              IF response.estimatedDuration # 0
              THEN response.estimatedDuration ELSE 300)

DefaultStepTypes(type) ==
    CASE type = "refactor" -> <<"analysis", "code_generation", "file_operation">>
      [] type = "implement" -> <<"analysis", "analysis", "code_generation",
                                 "code_generation", "documentation">>
      [] type = "fix" -> <<"analysis", "code_generation", "file_operation">>
      [] type = "review" -> <<"analysis", "code_generation">>
      [] OTHER -> <<"analysis", "code_generation">>

createDefaultPlan(type) ==
    LET types == DefaultStepTypes(type)
        steps == [k \in 1..Len(types) |-> PlanStep(StepId(k), types[k])]
    IN  Plan(steps, Len(steps) * 60)

\* createPlan without the try / catch
createPlanNoCatch(type, response) ==
    IF response.kind = "throws" THEN PlanThrown ELSE parsePlanResponse(response)

createPlan(type, response) ==
    LET attempt == IF response.kind = "throws" THEN PlanThrown
                   ELSE parsePlanResponse(response)
    IN  IF attempt.threw THEN createDefaultPlan(type) ELSE attempt

----------------------------------------------------------------------------
(* SafetyValidator (src/unnamed/part_003)                                  *)
(*                                                                         *)
(* A string is a sequence of tokens (words, separators, punctuation), cut  *)
(* so that every entry of the validator's lists is a run of whole tokens:  *)
(* includes and startsWith then are what they are on the characters.       *)

includes(s, sub) ==
    \E k \in 0..(Len(s) - Len(sub)) : SubSeq(s, k + 1, k + Len(sub)) = sub

startsWith(s, prefix) ==
    Len(prefix) <= Len(s) /\ SubSeq(s, 1, Len(prefix)) = prefix

LowerToken(w) ==
    CASE w = "RM" -> "rm"
      [] w = "-RF" -> "-rf"
      [] OTHER -> w

toLowerCase(s) == [k \in 1..Len(s) |-> LowerToken(s[k])]

dangerousOperations ==
    { <<"rm", " ", "-rf">>,
      <<"sudo", " ", "rm", " ", "-rf">>,
      <<"del", " ", "/", "s", " ", "/", "q">>,
      <<"format">>,
      <<"dd", " ", "if=", "/", "dev", "/", "zero">>,
      <<"shred">>,
      <<"wipe">> }

sensitiveFiles ==
    { <<".env">>, <<".git">>, <<"node_modules">>, <<"package-lock.json">>,
      <<"yarn.lock">>, <<".vscode", "/", "settings.json">>,
      <<"config.json">>, <<"secrets.json">> }

\* The inputs: steps and contexts.
WorkspaceRoot == <<"/", "home", "/", "u", "/", "proj">>

Commands ==
    { <<>>,
      <<"npm", " ", "test">>,
      <<"rm", " ", "-rf", " ", "/", "tmp", "/", "x">>,
      <<"RM", " ", "-RF", " ", "/", "tmp", "/", "x">>,
      <<"git", " ", "format", "-patch">>,
      <<"ls", " ", "src", "/", "*", "*">> }

FilePaths ==
    { <<>>,
      WorkspaceRoot \o <<"/", "src", "/", "new.ts">>,
      WorkspaceRoot \o <<"/", ".env">>,
      WorkspaceRoot \o <<"ect2", "/", "x">>,
      WorkspaceRoot \o <<"/", "..", "/", "..", "/", "etc", "/", "passwd">>,
      <<"/", "etc", "/", "passwd">>,
      <<"src", "/", "new.ts">>,
      <<".env">> }

Operations == {"", "create", "modify", "replace", "delete"}

\* content.length of the step's content: none, 1 MB, more than 1 MB
ContentLengths == {0, 1000000, 1000001}

ValidatedTypes == {"terminal_command", "file_operation", "code_generation"}

ValidatedSteps ==
    { [type |-> type,
       parameters |-> [command |-> command, filePath |-> filePath,
                       operation |-> operation, contentLength |-> n]] :
        type \in ValidatedTypes, command \in Commands, filePath \in FilePaths,
        operation \in Operations, n \in ContentLengths }

\* workspaceRoot is <<>> when no folder is open
Contexts ==
    { [workspaceRoot |-> root, hasUncommittedChanges |-> g] :
        root \in {<<>>, WorkspaceRoot}, g \in BOOLEAN }

\* const validation = { safe: true, warnings: [], recommendations: [] }
NewValidation ==
    [safe |-> TRUE, reason |-> <<>>, warnings |-> <<>>, recommendations |-> <<>>]

Block(v, reason, warning, recommendation) ==
    [safe |-> FALSE, reason |-> reason,
     warnings |-> Append(v.warnings, warning),
     recommendations |-> Append(v.recommendations, recommendation)]

\* a warning that also clears the safe flag
WarnUnsafe(v, warning, recommendation) ==
    [v EXCEPT !.safe = FALSE,
              !.warnings = Append(@, warning),
              !.recommendations = Append(@, recommendation)]

Warn(v, warning, recommendation) ==
    [v EXCEPT !.warnings = Append(@, warning),
              !.recommendations = Append(@, recommendation)]

DangerousReason(step) == <<"Dangerous command detected: ">> \o step.parameters.command
SensitiveReason(step) == <<"Attempting to modify sensitive file: ">> \o step.parameters.filePath
BoundaryReason(step) == <<"Operation outside workspace boundary: ">> \o step.parameters.filePath

\* Check for dangerous terminal commands
CheckDangerous(v, step) ==
    IF /\ step.type = "terminal_command"
       /\ \E op \in dangerousOperations :
              includes(toLowerCase(step.parameters.command), op)
    THEN Block(v, DangerousReason(step),
               "This command could cause data loss or system damage",
               "Review the command carefully before execution")
    ELSE v

\* the check for sensitive files blocking 'delete' only
CheckSensitiveDeleteOnly(v, step) ==
    IF /\ step.type = "file_operation"
       /\ \E sensitive \in sensitiveFiles : includes(step.parameters.filePath, sensitive)
       /\ step.parameters.operation = "delete"
    THEN Block(v, SensitiveReason(step),
               "This operation could affect project configuration or security",
               "Backup the file before proceeding")
    ELSE v

\* Check for sensitive file operations
CheckSensitive(v, step) ==
    IF /\ step.type = "file_operation"
       /\ \E sensitive \in sensitiveFiles : includes(step.parameters.filePath, sensitive)
       /\ step.parameters.operation \in {"delete", "replace"}
    THEN Block(v, SensitiveReason(step),
               "This operation could affect project configuration or security",
               "Backup the file before proceeding")
    ELSE v

\* Check for workspace boundary violations
CheckBoundary(v, step, context) ==
    IF /\ context.workspaceRoot # <<>>
       /\ step.parameters.filePath # <<>>
       /\ ~startsWith(step.parameters.filePath, context.workspaceRoot)
    THEN Block(v, BoundaryReason(step),
               "This operation targets files outside the current workspace",
               "Ensure the file path is within the workspace")
    ELSE v

\* Check for git repository modifications
CheckGit(v, step, context) ==
    IF context.hasUncommittedChanges /\ step.type = "file_operation"
    THEN Warn(v, "There are uncommitted changes in the git repository",
                 "Consider committing or stashing changes before proceeding")
    ELSE v

\* the check for large file operations blocking the step
CheckLargeBlocks(v, step) ==
    IF step.type = "file_operation" /\ step.parameters.contentLength > 1000000
    THEN Block(v, <<"Large file operation detected">>,
               "Large file operation detected",
               "Consider breaking this into smaller operations")
    ELSE v

\* Check for large file operations
CheckLarge(v, step) ==
    IF step.type = "file_operation" /\ step.parameters.contentLength > 1000000
    THEN Warn(v, "Large file operation detected",
                 "Consider breaking this into smaller operations")
    ELSE v

\* Check for recursive operations
CheckRecursive(v, step) ==
    IF /\ step.type = "terminal_command"
       /\ \/ includes(step.parameters.command, <<"*", "*">>)
          \/ includes(step.parameters.command, <<"/", "*">>)
          \/ includes(step.parameters.command, <<"\\", "*">>)
    THEN Warn(v, "Recursive operation detected", "Verify the scope of this operation")
    ELSE v

validateStep(step, context) ==
    LET v1 == CheckDangerous(NewValidation, step)
        v2 == CheckSensitive(v1, step)
        v3 == CheckBoundary(v2, step, context)
        v4 == CheckGit(v3, step, context)
        v5 == CheckLarge(v4, step)
    IN  CheckRecursive(v5, step)

(* The location a file path stands for, as executeFileOperation resolves   *)
(* it: path.isAbsolute(p) ? p : path.join(workspaceRoot, p).                *)

isAbsolute(path) == path # <<>> /\ path[1] = "/"

fullPath(path, root) ==
    IF isAbsolute(path) THEN path ELSE root \o <<"/">> \o path

\* the segments between the separators
RECURSIVE split(_, _, _)
split(path, cur, acc) ==
    IF path = <<>>
    THEN IF cur = "" THEN acc ELSE Append(acc, cur)
    ELSE IF Head(path) = "/"
         THEN split(Tail(path), "", IF cur = "" THEN acc ELSE Append(acc, cur))
         ELSE split(Tail(path), cur \o Head(path), acc)

\* '.' and '..' segments resolved
RECURSIVE normalize(_, _)
normalize(segs, acc) ==
    IF segs = <<>> THEN acc
    ELSE IF Head(segs) = ".."
         THEN normalize(Tail(segs), IF acc = <<>> THEN acc ELSE SubSeq(acc, 1, Len(acc) - 1))
         ELSE IF Head(segs) = "."
              THEN normalize(Tail(segs), acc)
              ELSE normalize(Tail(segs), Append(acc, Head(segs)))

resolved(path, root) == normalize(split(fullPath(path, root), "", <<>>), <<>>)

UnderRoot(path, root) == startsWith(resolved(path, root), resolved(root, root))

(* validateCodeGeneration, validateRefactoring *)

\* a then, later on the same line, b: the patterns with .* between two parts
includesThen(s, a, b) ==
    \E k \in 0..(Len(s) - Len(a)) : \E j \in (k + Len(a))..(Len(s) - Len(b)) :
        /\ SubSeq(s, k + 1, k + Len(a)) = a
        /\ SubSeq(s, j + 1, j + Len(b)) = b
        /\ \A n \in (k + 1)..j : s[n] # "\n"

QuotedLiterals == {"'hunter2'"}

\* securityPatterns.some(pattern => pattern.test(code))
MatchesSecurity(code) ==
    \/ \E f \in {"eval", "exec", "system", "shell_exec", "passthru"} :
           includes(code, <<f, "(">>)
    \/ includesThen(code, <<"backquote">>, <<"backquote">>)
    \/ includes(code, <<"process", ".", "exec">>)
    \/ includes(code, <<"child_process", ".", "spawn">>)
    \/ includesThen(code, <<"require", "(">>, <<"http">>)
    \/ includesThen(code, <<"fetch", "(">>, <<"http">>)

MatchesCredentials(code) ==
    \E name \in {"password", "api_key", "secret", "token"}, q \in QuotedLiterals :
        includes(code, <<name, "=", q>>)

MatchesLoop(code) ==
    \/ includes(code, <<"while", "(", "true", ")">>)
    \/ includes(code, <<"for", "(", ";", ";", ")">>)
    \/ includes(code, <<"while", "(", "1", ")">>)

validateCodeGeneration(code, context) ==
    LET v1 == IF MatchesSecurity(code)
              THEN Warn(NewValidation, "Potential security issue detected in generated code",
                        "Review the code for security vulnerabilities")
              ELSE NewValidation
        v2 == IF MatchesCredentials(code)
              THEN Warn(v1, "Hardcoded credentials detected",
                        "Use environment variables or secure configuration management")
              ELSE v1
    IN  IF MatchesLoop(code)
        THEN Warn(v2, "Potential infinite loop detected",
                  "Ensure proper exit conditions are in place")
        ELSE v2

\* code.split('\n').length
LineCount(code) == 1 + Cardinality({k \in 1..Len(code) : code[k] = "\n"})

Abs(n) == IF n < 0 THEN -n ELSE n

importantPatterns ==
    { <<w, " ">> : w \in {"export", "import", "function", "class", "return", "throw"} }

validateRefactoring(originalCode, refactoredCode) ==
    LET originalLines == LineCount(originalCode)
        refactoredLines == LineCount(refactoredCode)
        v1 == IF 2 * Abs(originalLines - refactoredLines) > originalLines
              THEN Warn(NewValidation, "Significant code structure change detected",
                        "Verify that functionality is preserved")
              ELSE NewValidation
    IN  IF \E pattern \in importantPatterns :
               includes(originalCode, pattern) /\ ~includes(refactoredCode, pattern)
        THEN Warn(v1, "Important code patterns may have been removed",
                  "Review the refactored code for completeness")
        ELSE v1

CodeTexts ==
    { <<>>,
      <<"export", " ", "function", " ", "f", "(", ")", "\n", "return", " ", "1">>,
      <<"eval", "(", "x", ")">>,
      <<"password", "=", "'hunter2'", "\n", "while", "(", "true", ")">>,
      <<"fetch", "(", "'", "http", "'", ")", "\n", "\n", "\n", "x">> }

----------------------------------------------------------------------------
(* CodeExecutor.executeFileOperation (src/unnamed/part_001)                *)
(* Paths and contents are token sequences; an absent (or empty) path,      *)
(* operation or content is the empty one.                                  *)

MissingPathMsg == "File path is required for file operations"
UnknownOperationMsg == "Unknown file operation"
FailedMsg(what) == "Failed to " \o what

OldContent == <<"old">>

\* The files on disk when the step runs, all holding OldContent.
ExistingFiles ==
    { WorkspaceRoot \o <<"/", "src", "/", "old.ts">>,
      WorkspaceRoot \o <<"/", "cur.ts">>,
      WorkspaceRoot \o <<"/", "typed.ts">> }

\* step.parameters of a file_operation step
FileParameters ==
    { [operation |-> operation, filePath |-> filePath, content |-> content] :
        operation \in Operations \cup {"rename"},
        filePath \in { <<>>,
                       <<"src", "/", "new.ts">>,
                       <<"src", "/", "..", "/", "src", "/", "old.ts">>,
                       WorkspaceRoot \o <<"/", "src", "/", "old.ts">> },
        content \in {<<>>, <<"new">>} }

FileContexts ==
    { [workspaceRoot |-> root, currentFile |-> currentFile] :
        root \in {<<>>, WorkspaceRoot},
        currentFile \in {<<>>, WorkspaceRoot \o <<"/", "cur.ts">>} }

\* What the step meets when it runs: the files on disk, the settings
\* codeCompanion.confirmChanges / useMergeEditor / enableAutoSave, what the
\* user types into the input box (nothing when it is dismissed or left
\* empty), whether vscode.openWith fails, and the button the user picks in
\* the modal ("dismissed": none).
Environments ==
    { [files |-> files, confirmChanges |-> c, useMergeEditor |-> m,
       enableAutoSave |-> s, input |-> input, openWithThrows |-> o,
       proceed |-> proceed] :
        files \in {{}, ExistingFiles}, c \in BOOLEAN, m \in BOOLEAN,
        s \in BOOLEAN, input \in {<<>>, <<"typed.ts">>}, o \in BOOLEAN,
        proceed \in {"Yes", "No", "dismissed"} }

\* segments put back together, with the leading separator of an absolute path
RECURSIVE unsplit(_)
unsplit(segs) ==
    IF segs = <<>> THEN <<>>
    ELSE IF Len(segs) = 1 THEN <<Head(segs)>>
    ELSE <<Head(segs), "/">> \o unsplit(Tail(segs))

\* path.join(root, path): joined with a separator and normalised
join(root, path) ==
    LET joined == IF root = <<>> THEN path ELSE root \o <<"/">> \o path
        segs == normalize(split(joined, "", <<>>), <<>>)
    IN  IF isAbsolute(joined) THEN <<"/">> \o unsplit(segs) ELSE unsplit(segs)

\* the file a path leads to ('.' and '..' resolved): whether it exists, and
\* its content
FileAt(env, path) ==
    IF join(<<>>, path) \in env.files THEN [exists |-> TRUE, content |-> OldContent]
    ELSE [exists |-> FALSE, content |-> <<>>]

\* The outcome of executeFileOperation: how the call settled (threw / error,
\* or the returned object's cancelled / success / operation), the path and
\* operation it resolved, whether the input box, the diff and the modal were
\* shown (view: in the merge editor or the two-way diff), and the target file
\* before and afterwards.
Outcome(resolvedPath, target, op, prompted, file) ==
    [threw |-> FALSE, error |-> None, cancelled |-> FALSE, success |-> FALSE,
     operation |-> None, resolvedPath |-> resolvedPath, target |-> target,
     op |-> op, prompted |-> prompted, diffShown |-> FALSE, view |-> None,
     asked |-> FALSE,
     before |-> file, after |-> file]

Thrown(o, msg) == [o EXCEPT !.threw = TRUE, !.error = msg]

\* a createFile that leaves an existing file alone
createFileKeepsExisting(o, content) ==
    IF o.before.exists THEN [o EXCEPT !.cancelled = TRUE]
    ELSE [o EXCEPT !.success = TRUE, !.operation = "created",
                   !.after = [exists |-> TRUE, content |-> content]]

createFile(o, content) ==
    [o EXCEPT !.success = TRUE, !.operation = "created",
              !.after = [exists |-> TRUE, content |-> content]]

deleteFile(o) ==
    IF ~o.before.exists THEN Thrown(o, FailedMsg("delete file"))
    ELSE [o EXCEPT !.success = TRUE, !.operation = "deleted",
                   !.after = [exists |-> FALSE, content |-> <<>>]]

\* The confirmation block shared by modifyFile and replaceFileContent: the
\* proposed content is shown (merge editor or diff); only in diff mode is the
\* modal 'Apply the displayed changes?' asked, and any answer but 'Yes'
\* returns { cancelled: true }.  success stands for "goes on to the edit".
Confirmed(o, env) ==
    IF ~env.confirmChanges THEN [o EXCEPT !.success = TRUE]
    ELSE LET shown == [o EXCEPT !.diffShown = TRUE,
                                !.view = IF env.useMergeEditor /\ ~env.openWithThrows
                                         THEN "mergeEditor" ELSE "diff"]
         IN  IF ~env.useMergeEditor
             THEN IF env.proceed # "Yes"
                  THEN [shown EXCEPT !.asked = TRUE, !.cancelled = TRUE]
                  ELSE [shown EXCEPT !.asked = TRUE, !.success = TRUE]
             ELSE [shown EXCEPT !.success = TRUE]

\* applyEdit on the document and, with enableAutoSave, doc.save()
Applied(o, env, newContent, operation) ==
    [o EXCEPT !.operation = operation,
              !.after = IF env.enableAutoSave
                        THEN [exists |-> TRUE, content |-> newContent]
                        ELSE o.before]

modifyFile(o, content, env) ==
    IF ~o.before.exists THEN Thrown(o, FailedMsg("modify file"))
    ELSE LET modifiedContent == o.before.content \o <<"\n">> \o content
             c == Confirmed(o, env)
         IN  IF c.cancelled THEN c ELSE Applied(c, env, modifiedContent, "modified")

replaceFileContent(o, content, env) ==
    IF ~o.before.exists THEN Thrown(o, FailedMsg("replace file content"))
    ELSE LET c == Confirmed(o, env)
         IN  IF c.cancelled THEN c ELSE Applied(c, env, content, "replaced")

\* a resolution that asks the user before looking at the current file
ResolvedPathPromptFirst(parameters, context, env) ==
    IF parameters.filePath # <<>> THEN parameters.filePath
    ELSE IF env.input # <<>> THEN env.input
    ELSE context.currentFile

\* filePath, else context.currentFile, else the input box (empty: none)
ResolvedPath(parameters, context, env) ==
    IF parameters.filePath # <<>> THEN parameters.filePath
    ELSE IF context.currentFile # <<>> THEN context.currentFile
    ELSE env.input

executeFileOperation(parameters, context, env) ==
    LET safeContent == parameters.content
        resolvedPath == ResolvedPath(parameters, context, env)
        prompted == parameters.filePath = <<>> /\ context.currentFile = <<>>
    IN  IF resolvedPath = <<>>
        THEN Thrown(Outcome(<<>>, <<>>, "", prompted, FileAt(env, <<>>)), MissingPathMsg)
        ELSE LET full == IF isAbsolute(resolvedPath) THEN resolvedPath
                         ELSE join(context.workspaceRoot, resolvedPath)
                 fileExists == FileAt(env, full).exists
                 resolvedOperation ==
                     IF parameters.operation # "" THEN parameters.operation
                     ELSE IF fileExists THEN "replace" ELSE "create"
                 o == Outcome(resolvedPath, full, resolvedOperation, prompted, FileAt(env, full))
             IN  CASE resolvedOperation = "create" -> createFile(o, safeContent)
                   [] resolvedOperation = "modify" -> modifyFile(o, safeContent, env)
                   [] resolvedOperation = "delete" -> deleteFile(o)
                   [] resolvedOperation = "replace" -> replaceFileContent(o, safeContent, env)
                   [] OTHER -> Thrown(o, UnknownOperationMsg)

----------------------------------------------------------------------------
(* CodeExecutor.executeStep and the step kinds other than file_operation   *)

KnownStepTypes ==
    {"code_generation", "file_operation", "terminal_command", "analysis",
     "design", "test", "documentation"}

\* the result of executeAnalysis: { analysis: `Analysis completed for: ...` }
AnalysisResult == "analysis"

\* What executeStep gives: whether it threw, the kind of object it returned,
\* the side effects of the call ("llm": a call of llm.generate, "spawn": a
\* child process, "ui": an input box, diff or modal shown, "file": the target
\* file changed) and, for a step that works on a file, the outcome of that.
NoFile == Outcome(<<>>, <<>>, "", FALSE, [exists |-> FALSE, content |-> <<>>])

Returned(kind, effects) ==
    [threw |-> FALSE, kind |-> kind, effects |-> effects, file |-> NoFile]

Rejected(effects) ==
    [threw |-> TRUE, kind |-> None, effects |-> effects, file |-> NoFile]

\* the outcome of a helper that works on a file, as the result of the step
FileResult(o) ==
    [threw |-> o.threw,
     kind |-> IF o.threw THEN None ELSE IF o.cancelled THEN "cancelled" ELSE o.operation,
     effects |-> (IF o.after # o.before THEN {"file"} ELSE {})
                 \cup (IF o.prompted \/ o.diffShown \/ o.asked THEN {"ui"} ELSE {}),
     file |-> o]

\* llm.generate(prompt) returns or throws
executeCodeGeneration(step, context, env) ==
    IF env.llm = "throws" THEN Rejected({"llm"}) ELSE Returned("generatedCode", {"llm"})

\* no command: throws; else the command is spawned and its exit code decides
executeTerminalCommand(step, context, env) ==
    IF step.parameters.command = <<>> THEN Rejected({})
    ELSE IF env.exitCode = 0 THEN Returned("command", {"spawn"})
    ELSE Rejected({"spawn"})

executeAnalysis(step, context) == Returned(AnalysisResult, {})

executeTest(step, context) == Returned("test", {})

\* README.md under the workspace root is replaced (through the confirmation
\* of replaceFileContent) if it exists, and created otherwise
executeDocumentation(step, context, env) ==
    LET readmePath == join(context.workspaceRoot, <<"README.md">>)
        finalContent ==
            (IF step.parameters.content # <<>> THEN step.parameters.content
             ELSE <<"generated">>) \o <<"footer">>
        o == Outcome(<<"README.md">>, readmePath,
                     IF FileAt(env, readmePath).exists THEN "replace" ELSE "create",
                     FALSE, FileAt(env, readmePath))
    IN  FileResult(IF o.before.exists THEN replaceFileContent(o, finalContent, env)
                   ELSE createFile(o, finalContent))

\* an executeStep that rejects a step of an unknown type
executeStepStrict(step, context, env) ==
    CASE step.type = "code_generation" -> executeCodeGeneration(step, context, env)
      [] step.type = "file_operation" ->
             FileResult(executeFileOperation(step.parameters, context, env))
      [] step.type = "terminal_command" -> executeTerminalCommand(step, context, env)
      [] step.type \in {"analysis", "design"} -> executeAnalysis(step, context)
      [] step.type = "test" -> executeTest(step, context)
      [] step.type = "documentation" -> executeDocumentation(step, context, env)
      [] OTHER -> Rejected({})

executeStep(step, context, env) ==
    CASE step.type = "code_generation" -> executeCodeGeneration(step, context, env)
      [] step.type = "file_operation" ->
             FileResult(executeFileOperation(step.parameters, context, env))
      [] step.type = "terminal_command" -> executeTerminalCommand(step, context, env)
      [] step.type \in {"analysis", "design"} -> executeAnalysis(step, context)
      [] step.type = "test" -> executeTest(step, context)
      [] step.type = "documentation" -> executeDocumentation(step, context, env)
      [] OTHER -> executeAnalysis(step, context)

----------------------------------------------------------------------------
(* globalState and the constructor *)

\* What globalState keeps of a value: its JSON form.  A property whose value
\* is undefined (the error of a successful TaskResult) is not written.
Written(r) ==
    IF r.error = None
    THEN [taskId |-> r.taskId, type |-> r.type, params |-> r.params,
          success |-> r.success, nresults |-> r.nresults]
    ELSE r

Serialize(h) == [k \in 1..Len(h) |-> Written(h[k])]

\* The array read back in a later session: a property that was not written
\* reads as undefined.
ReadBack(w) ==
    IF "error" \in DOMAIN w
    THEN w
    ELSE [taskId |-> w.taskId, type |-> w.type, params |-> w.params,
          success |-> w.success, nresults |-> w.nresults, error |-> None]

Deserialize(stored) == [k \in 1..Len(stored) |-> ReadBack(stored[k])]

\* pushToHistory without globalState.update
persistSkipped(h) == store

\* this.context.globalState.update('codeCompanion.taskHistory', this.taskHistory)
persist(h) == Serialize(h)

\* const persistedHistory = this.context.globalState.get(...);
\* if (persistedHistory && Array.isArray(persistedHistory)) this.taskHistory = persistedHistory
LoadHistory(stored) == Deserialize(stored)

Init ==
    /\ tasks = <<>>
    /\ active = {}
    /\ store = Serialize(PersistedHistory)
    /\ history = LoadHistory(store)
    /\ ret = NoCall
    /\ disposed = FALSE
    /\ limit = MaxTasks
    /\ probe = NoProbe

----------------------------------------------------------------------------
(* pushToHistory *)

\* pushToHistory without the shift()
pushToHistoryNoEvict(h, result) == Append(h, result)

\* pushToHistory without the push()
pushToHistoryDropped(h, result) == h

pushToHistory(h, result) ==
    LET pushed == Append(h, result)
    IN  IF Len(pushed) > MaxHistory THEN Tail(pushed) ELSE pushed

\* updateTaskProgress given the loop index instead of the number of steps done
updateTaskProgressByIndex(t, currentStep, totalSteps) ==
    [t EXCEPT !.currentStep = currentStep - 1,
              !.progress = <<(currentStep - 1) * 100, totalSteps>>,
              !.unnotified = {}]

\* task.progress = (currentStep / totalSteps) * 100 is kept as the fraction
\* <<currentStep * 100, totalSteps>>; the method ends with updateStatusBar().
updateTaskProgress(t, currentStep, totalSteps) ==
    [t EXCEPT !.currentStep = currentStep,
              !.progress = <<currentStep * 100, totalSteps>>,
              !.unnotified = {}]

\* The catch block of executeTask / runCustomPlan: the task fails, its result
\* goes to history, the id leaves the active set, the error is rethrown.
FailedTask(t, msg) ==
    [t EXCEPT !.status = "failed", !.error = msg, !.pc = "done",
              !.outcome = "rejected", !.rejErr = msg,
              !.trail = Append(@, "failed"), !.unnotified = {}]

FailResult(id, t, msg) ==
    [taskId |-> id, type |-> t.type, params |-> t.params,
     success |-> FALSE, error |-> msg, nresults |-> 0]

\* the end of a run emptying the whole map
ActiveAfterRunCleared(id) == {}

\* the end of a run without activeTasks.delete
ActiveAfterRunKept(id) == active

\* this.activeTasks.delete(taskId) at the end of a run
ActiveAfterRun(id) == active \ {id}

FailRun(id, t, msg) ==
    /\ tasks' = [tasks EXCEPT ![id] = FailedTask(t, msg)]
    /\ history' = pushToHistory(history, FailResult(id, t, msg))
    /\ store' = persist(history')
    /\ active' = ActiveAfterRun(id)

\* The end of the try block: the task completes.
CompletedTask(t) ==
    [t EXCEPT !.status = "completed", !.pc = "done",
              !.outcome = "returned",
              !.trail = Append(@, "completed"), !.unnotified = {}]

SuccessResult(id, t) ==
    [taskId |-> id, type |-> t.type, params |-> t.params,
     success |-> TRUE, error |-> None, nresults |-> Len(t.results)]

CompleteRun(id, t) ==
    /\ tasks' = [tasks EXCEPT ![id] = CompletedTask(t)]
    /\ history' = pushToHistory(history, SuccessResult(id, t))
    /\ store' = persist(history')
    /\ active' = ActiveAfterRun(id)

\* Top of the loop body: step i is marked running and validateStep is called.
StartStep(t) ==
    [t EXCEPT !.steps[t.i].status = "running",
              !.steps[t.i].vcalls = @ + 1,
              !.steps[t.i].vctx = t.context,
              !.pc = "validate"]

\* The for loop from its condition to the next await.
StepLoop(id, t) ==
    IF t.i > Len(t.steps)
    THEN CompleteRun(id, t)
    ELSE IF id \notin active
         THEN FailRun(id, t, CancelMsg)
         ELSE /\ tasks' = [tasks EXCEPT ![id] = StartStep(t)]
              /\ UNCHANGED <<active, history, store>>

----------------------------------------------------------------------------
(* executeTask and runCustomPlan, up to the first await *)

ExecuteTask ==
    /\ ~disposed
    /\ Len(tasks) < limit
    /\ \E type \in SubmitTypes, params \in SubmitParams :
         tasks' = Append(tasks, Task("execute", type, params, "analyzing", <<>>))
    /\ active' = active \cup {Len(tasks) + 1}
    /\ ret' = NoCall
    /\ UNCHANGED <<probe, limit>>
    /\ UNCHANGED <<history, store, disposed>>

RunCustomPlan ==
    /\ ~disposed
    /\ Len(tasks) < limit
    /\ \E type \in SubmitTypes, params \in SubmitParams, customSteps \in CustomPlans :
         tasks' = Append(tasks, Task("custom", type, params, "executing", customSteps))
    /\ active' = active \cup {Len(tasks) + 1}
    /\ ret' = NoCall
    /\ UNCHANGED <<probe, limit>>
    /\ UNCHANGED <<history, store, disposed>>

(* contextAnalyzer.analyze settles *)

\* executeTask going from the analysis straight to 'executing'
PlanningSkipped(t) ==
    [t EXCEPT !.pc = "plan", !.planCalls = @ + 1, !.llmCalls = @ + 1]

\* task.status = 'planning'; planner.createPlan(...) is called and runs up to
\* its await of llm.generate(prompt)
Planning(t) ==
    [t EXCEPT !.status = "planning", !.pc = "plan",
              !.trail = Append(@, "planning"), !.unnotified = @ \cup {"planning"},
              !.planCalls = @ + 1, !.llmCalls = @ + 1]

\* task.steps = plan.steps; task.status = 'executing'
Executing(t, steps) ==
    [t EXCEPT !.steps = steps, !.status = "executing",
              !.trail = Append(@, "executing"), !.unnotified = @ \cup {"executing"}]

AnalyzeReturns(id) ==
    /\ tasks[id].pc = "analyze"
    /\ ret' = NoCall
    /\ UNCHANGED <<probe, limit>>
    /\ UNCHANGED disposed
    /\ LET t == [tasks[id] EXCEPT !.context = AnalyzedContext, !.ctxSet = @ + 1] IN
       IF t.kind = "execute"
       THEN /\ tasks' = [tasks EXCEPT ![id] = Planning(t)]
            /\ UNCHANGED <<active, history, store>>
       ELSE StepLoop(id, t)

AnalyzeThrows(id) ==
    /\ tasks[id].pc = "analyze"
    /\ ret' = NoCall
    /\ UNCHANGED <<probe, limit>>
    /\ UNCHANGED disposed
    /\ FailRun(id, tasks[id], CtxErr)

(* planner.createPlan settles (executeTask only) *)

PlanReturns(id) ==
    /\ tasks[id].pc = "plan"
    /\ ret' = NoCall
    /\ UNCHANGED <<probe, limit>>
    /\ UNCHANGED disposed
    /\ \E response \in LlmResponses :
         LET plan == createPlan(tasks[id].type, response) IN
         IF plan.threw
         THEN FailRun(id, tasks[id], PlanErr)
         ELSE /\ Len(plan.steps) <= MaxSteps
              /\ StepLoop(id, Executing(tasks[id], PendingSteps(Len(plan.steps))))

(* safetyValidator.validateStep settles *)

\* executeTask wraps validateStep in the inner try: the step fails.
\* runCustomPlan calls it before the inner try: the step is left as it is.
StepAfterBlock(t, msg) ==
    IF t.kind = "execute"
    THEN [t EXCEPT !.steps[t.i].status = "failed", !.steps[t.i].error = msg]
    ELSE t

\* executeStep called with a context gathered again
CallExecutorFreshContext(t) ==
    [t EXCEPT !.steps[t.i].ecalls = @ + 1, !.steps[t.i].ectx = "fresh",
              !.pc = "execute"]

CallExecutor(t) ==
    [t EXCEPT !.steps[t.i].ecalls = @ + 1, !.steps[t.i].ectx = t.context,
              !.pc = "execute"]

ValidateSafe(id) ==
    /\ tasks[id].pc = "validate"
    /\ ret' = NoCall
    /\ UNCHANGED <<probe, limit>>
    /\ tasks' = [tasks EXCEPT ![id] = CallExecutor([tasks[id] EXCEPT !.steps[tasks[id].i].vres = "safe"])]
    /\ UNCHANGED <<active, history, store, disposed>>

\* the loop without the check of validation.safe
OnUnsafeIgnored(id, t) ==
    /\ tasks' = [tasks EXCEPT ![id] = CallExecutor(t)]
    /\ UNCHANGED <<active, history, store>>

\* if (!validation.safe) throw new Error(`Safety validation failed: ...`)
OnUnsafe(id, t) ==
    FailRun(id, StepAfterBlock(t, SafetyMsg(Reason)), SafetyMsg(Reason))

ValidateUnsafe(id) ==
    /\ tasks[id].pc = "validate"
    /\ ret' = NoCall
    /\ UNCHANGED <<probe, limit>>
    /\ UNCHANGED disposed
    /\ OnUnsafe(id, [tasks[id] EXCEPT !.steps[tasks[id].i].vres = "unsafe"])

ValidateThrows(id) ==
    /\ tasks[id].pc = "validate"
    /\ ret' = NoCall
    /\ UNCHANGED <<probe, limit>>
    /\ UNCHANGED disposed
    /\ LET t == [tasks[id] EXCEPT !.steps[tasks[id].i].vres = "threw"]
       IN  FailRun(id, StepAfterBlock(t, ValErr), ValErr)

(* executor.executeStep settles *)

\* what executeStep returns for the step at loop index k
StepResult(k) == "result_" \o ToString(k)

\* a completed step whose result is not collected for the task summary
StepCompletedNotCollected(t, result) ==
    LET done == [t EXCEPT !.steps[t.i].status = "completed",
                          !.steps[t.i].result = result,
                          !.steps[t.i].eres = "returned"]
    IN  [updateTaskProgress(done, t.i, Len(t.steps)) EXCEPT !.i = @ + 1]

StepCompleted(t, result) ==
    LET done == [t EXCEPT !.steps[t.i].status = "completed",
                          !.steps[t.i].result = result,
                          !.steps[t.i].eres = "returned",
                          !.results = Append(@, result)]
    IN  [updateTaskProgress(done, t.i, Len(t.steps)) EXCEPT !.i = @ + 1]

StepFailed(t, msg) ==
    [t EXCEPT !.steps[t.i].status = "failed", !.steps[t.i].error = msg,
              !.steps[t.i].eres = "threw"]

ExecuteReturns(id) ==
    /\ tasks[id].pc = "execute"
    /\ ret' = NoCall
    /\ UNCHANGED <<probe, limit>>
    /\ UNCHANGED disposed
    /\ StepLoop(id, StepCompleted(tasks[id], StepResult(tasks[id].i)))

\* a loop that calls executeStep once more when it throws
ExecuteThrowsRetried(id) ==
    /\ tasks[id].pc = "execute"
    /\ ret' = NoCall
    /\ UNCHANGED <<probe, limit>>
    /\ UNCHANGED disposed
    /\ IF tasks[id].steps[tasks[id].i].ecalls < 2
       THEN /\ tasks' = [tasks EXCEPT ![id] = CallExecutor(tasks[id])]
            /\ UNCHANGED <<active, history, store>>
       ELSE FailRun(id, StepFailed(tasks[id], ExecErr), ExecErr)

ExecuteThrows(id) ==
    /\ tasks[id].pc = "execute"
    /\ ret' = NoCall
    /\ UNCHANGED <<probe, limit>>
    /\ UNCHANGED disposed
    /\ FailRun(id, StepFailed(tasks[id], ExecErr), ExecErr)

----------------------------------------------------------------------------
(* getTaskById: the Task if the id is active, else undefined (empty) *)

getTaskById(id) == IF id \in active THEN <<tasks[id]>> ELSE <<>>

\* getActiveTasks: the Tasks of the Map, by id
getActiveTasks == [id \in active |-> tasks[id]]

\* StatusBar.updateStatus: what the status bar item shows
StatusBarText ==
    LET activeTasks == getActiveTasks
        runningTasks == {id \in DOMAIN activeTasks :
                            activeTasks[id].status \in {"planning", "analyzing", "executing"}}
    IN  IF DOMAIN activeTasks # {}
        THEN IF runningTasks # {}
             THEN <<"active", Cardinality(runningTasks)>>
             ELSE <<"Ready", 0>>
        ELSE <<"idle", 0>>

----------------------------------------------------------------------------
(* retryTask *)

\* this.taskHistory.find(t => t.taskId === id): the first match, else empty
find(h, id) ==
    LET ks == {k \in 1..Len(h) : h[k].taskId = id}
    IN  IF ks = {} THEN <<>>
        ELSE <<h[CHOOSE k \in ks : \A j \in ks : k <= j]>>

\* the ids a caller passes to retryTask: the newest persisted record and the
\* ids of this session
RetryIds == 0..limit

\* retryTask starting the new task with empty params
RetriedTaskNoParams(historyItem) ==
    Task("execute", historyItem.type, "{}", "analyzing", <<>>)

\* executeTask(historyItem.type, originalParams) up to its first await
RetriedTask(historyItem) ==
    Task("execute", historyItem.type, historyItem.params, "analyzing", <<>>)

RetryTask(originalTaskId) ==
    /\ ~disposed
    /\ UNCHANGED <<history, store, disposed, probe, limit>>
    /\ LET historyItem == find(history, originalTaskId) IN
       IF historyItem = <<>>
       THEN /\ ret' = [id |-> originalTaskId, value |-> NotFoundMsg]
            /\ UNCHANGED <<tasks, active>>
       ELSE /\ Len(tasks) < limit
            /\ tasks' = Append(tasks, RetriedTask(historyItem[1]))
            /\ active' = active \cup {Len(tasks) + 1}
            /\ ret' = [id |-> originalTaskId, value |-> "spawned"]

----------------------------------------------------------------------------
(* cancelTask, dispose *)

\* task.status = 'cancelled'; cancelTask ends with updateStatusBar()
CancelledTask(t) ==
    [t EXCEPT !.status = "cancelled", !.cancelled = TRUE, !.unnotified = {}]

CancelReturn(found) == IF found THEN "true" ELSE "false"

\* cancelTask without activeTasks.delete
ActiveAfterCancelKept(id) == active

\* this.activeTasks.delete(taskId) in cancelTask
ActiveAfterCancel(id) == active \ {id}

CancelTask(id) ==
    /\ ~disposed
    /\ UNCHANGED <<history, store, disposed, probe, limit>>
    /\ IF id \in active
       THEN /\ tasks' = [tasks EXCEPT ![id] = CancelledTask(tasks[id])]
            /\ active' = ActiveAfterCancel(id)
            /\ ret' = [id |-> id, value |-> CancelReturn(TRUE)]
       ELSE /\ ret' = [id |-> id, value |-> CancelReturn(FALSE)]
            /\ UNCHANGED <<tasks, active>>

Dispose ==
    /\ ~disposed
    /\ disposed' = TRUE
    /\ active' = {}
    /\ history' = <<>>
    /\ ret' = NoCall
    /\ UNCHANGED <<probe, limit>>
    /\ UNCHANGED <<tasks, store>>

----------------------------------------------------------------------------

Next ==
    \/ ExecuteTask
    \/ RunCustomPlan
    \/ \E id \in Ids : AnalyzeReturns(id)
    \/ \E id \in Ids : AnalyzeThrows(id)
    \/ \E id \in Ids : PlanReturns(id)
    \/ \E id \in Ids : ValidateSafe(id)
    \/ \E id \in Ids : ValidateUnsafe(id)
    \/ \E id \in Ids : ValidateThrows(id)
    \/ \E id \in Ids : ExecuteReturns(id)
    \/ \E id \in Ids : ExecuteThrows(id)
    \/ \E id \in 1..limit : CancelTask(id)
    \/ \E id \in RetryIds : RetryTask(id)
    \/ Dispose

Spec == Init /\ [][Next]_vars

\* The call the run of task id waits on settles: it returns or it fails.
Settle(id) ==
    /\ id \in Ids
    /\ \/ AnalyzeReturns(id)
       \/ AnalyzeThrows(id)
       \/ PlanReturns(id)
       \/ ValidateSafe(id)
       \/ ValidateUnsafe(id)
       \/ ValidateThrows(id)
       \/ ExecuteReturns(id)
       \/ ExecuteThrows(id)

\* The manager when every awaited call eventually settles: the event loop
\* then runs the continuation of the run.
SpecFair == Spec /\ \A id \in 1..MaxTasks : WF_vars(Settle(id))

\* A session in which one task more is submitted, so that task runs overlap;
\* nothing was persisted before it.
InitConcurrent ==
    /\ tasks = <<>>
    /\ active = {}
    /\ store = <<>>
    /\ history = LoadHistory(store)
    /\ ret = NoCall
    /\ disposed = FALSE
    /\ limit = MaxTasks + 1
    /\ probe = NoProbe

SpecConcurrent == InitConcurrent /\ [][Next]_vars

----------------------------------------------------------------------------
(* The planner alone: createPlan applied to every task type and every way  *)
(* the LLM call settles.                                                   *)

CreatePlanCalls ==
    { [fn |-> "createPlan", args |-> <<type, response>>, out |-> <<>>] :
        type \in TaskType, response \in LlmResponses }

\* A manager nothing was submitted to, with nothing persisted.
InitPlanner ==
    /\ tasks = <<>>
    /\ active = {}
    /\ store = <<>>
    /\ history = LoadHistory(store)
    /\ ret = NoCall
    /\ disposed = FALSE
    /\ limit = MaxTasks
    /\ probe \in CreatePlanCalls

CreatePlan ==
    /\ probe.fn = "createPlan"
    /\ probe.out = <<>>
    /\ probe' = [probe EXCEPT !.out = <<createPlan(probe.args[1], probe.args[2])>>]
    /\ UNCHANGED <<tasks, active, history, store, ret, disposed, limit>>

NextPlanner == CreatePlan

SpecPlanner == InitPlanner /\ [][NextPlanner]_vars

----------------------------------------------------------------------------
(* The validator alone: each of its three functions applied to every step, *)
(* context and code text above.                                            *)

ValidatorCalls ==
    { [fn |-> "validateStep", args |-> <<step, context>>, out |-> <<>>] :
        step \in ValidatedSteps, context \in Contexts }
    \cup { [fn |-> "validateCodeGeneration", args |-> <<code, context>>, out |-> <<>>] :
             code \in CodeTexts, context \in Contexts }
    \cup { [fn |-> "validateRefactoring", args |-> <<code, refactored>>, out |-> <<>>] :
             code \in CodeTexts, refactored \in CodeTexts }

InitValidator ==
    /\ tasks = <<>>
    /\ active = {}
    /\ store = <<>>
    /\ history = LoadHistory(store)
    /\ ret = NoCall
    /\ disposed = FALSE
    /\ limit = MaxTasks
    /\ probe \in ValidatorCalls

ValidateStep ==
    /\ probe.fn = "validateStep"
    /\ probe.out = <<>>
    /\ probe' = [probe EXCEPT !.out = <<validateStep(probe.args[1], probe.args[2])>>]
    /\ UNCHANGED <<tasks, active, history, store, ret, disposed, limit>>

ValidateCodeGeneration ==
    /\ probe.fn = "validateCodeGeneration"
    /\ probe.out = <<>>
    /\ probe' = [probe EXCEPT !.out = <<validateCodeGeneration(probe.args[1], probe.args[2])>>]
    /\ UNCHANGED <<tasks, active, history, store, ret, disposed, limit>>

ValidateRefactoring ==
    /\ probe.fn = "validateRefactoring"
    /\ probe.out = <<>>
    /\ probe' = [probe EXCEPT !.out = <<validateRefactoring(probe.args[1], probe.args[2])>>]
    /\ UNCHANGED <<tasks, active, history, store, ret, disposed, limit>>

NextValidator ==
    \/ ValidateStep
    \/ ValidateCodeGeneration
    \/ ValidateRefactoring

SpecValidator == InitValidator /\ [][NextValidator]_vars

----------------------------------------------------------------------------
(* The executor alone: executeFileOperation applied to every step, context *)
(* and environment.                                                        *)

ExecutorCalls ==
    { [fn |-> "executeFileOperation", args |-> <<parameters, context, env>>, out |-> <<>>] :
        parameters \in FileParameters, context \in FileContexts, env \in Environments }

InitExecutor ==
    /\ tasks = <<>>
    /\ active = {}
    /\ store = <<>>
    /\ history = LoadHistory(store)
    /\ ret = NoCall
    /\ disposed = FALSE
    /\ limit = MaxTasks
    /\ probe \in ExecutorCalls

ExecuteFileOperation ==
    /\ probe.fn = "executeFileOperation"
    /\ probe.out = <<>>
    /\ probe' = [probe EXCEPT !.out = <<executeFileOperation(probe.args[1], probe.args[2], probe.args[3])>>]
    /\ UNCHANGED <<tasks, active, history, store, ret, disposed, limit>>

NextExecutor == ExecuteFileOperation

SpecExecutor == InitExecutor /\ [][NextExecutor]_vars

----------------------------------------------------------------------------
(* One pass of the loop body of executeTask, with the validator and the    *)
(* executor themselves: the step is marked running, validateStep judges    *)
(* it, executeStep carries it out, and the loop goes on or the run fails.  *)

\* A step with everything the validator and the executor read of it.
Step(type, command, filePath, operation, content) ==
    [type |-> type,
     parameters |-> [command |-> command, filePath |-> filePath,
                     operation |-> operation, content |-> content,
                     contentLength |-> Len(content)]]

SensitivePath == WorkspaceRoot \o <<"/", ".env">>
OutsidePath == <<"/", "etc", "/", "passwd">>

FileSteps ==
    { Step("file_operation", <<>>, filePath, operation, <<"new">>) :
        filePath \in { <<>>,
                       WorkspaceRoot \o <<"/", "src", "/", "old.ts">>,
                       SensitivePath,
                       WorkspaceRoot \o <<"/", "..", "/", "..", "/", "etc", "/", "passwd">>,
                       <<"src", "/", "new.ts">> },
        operation \in {"", "create", "modify", "replace", "delete"} }

OtherSteps ==
    { Step(type, command, <<>>, "", <<>>) :
        type \in (KnownStepTypes \ {"file_operation"}) \cup {"refactor"},
        command \in {<<>>, <<"npm", " ", "test">>} }

StepContexts ==
    { [workspaceRoot |-> WorkspaceRoot, currentFile |-> currentFile,
       hasUncommittedChanges |-> FALSE] :
        currentFile \in {<<>>, WorkspaceRoot \o <<"/", "cur.ts">>, SensitivePath, OutsidePath} }

\* The files on disk (everything, or nothing), the settings, the answers of
\* the user, and how llm.generate and the child process end.
StepEnvironments ==
    { [files |-> files, confirmChanges |-> c, useMergeEditor |-> FALSE,
       enableAutoSave |-> TRUE, input |-> input, openWithThrows |-> FALSE,
       proceed |-> proceed, llm |-> llm, exitCode |-> exitCode] :
        files \in {{}, ExistingFiles \cup {SensitivePath, OutsidePath}},
        c \in BOOLEAN, input \in {<<>>, OutsidePath},
        proceed \in {"Yes", "No"}, llm \in {"returns", "throws"},
        exitCode \in {0, 1} }

\* A task of one planned step, about to enter the loop.
OneStepTask ==
    [Executing(Planning([Task("execute", "review", "params", "analyzing", <<>>)
                            EXCEPT !.context = AnalyzedContext, !.ctxSet = 1]),
               PendingSteps(1))
        EXCEPT !.pc = "loop"]

\* The task after the loop body ran for the step, the validation, whether
\* executeStep was called and what it gave.
runStep(step, context, env) ==
    LET running == StartStep(OneStepTask)
        validation == validateStep(step, context)
    IN  IF ~validation.safe
        THEN [task |-> FailedTask(StepAfterBlock([running EXCEPT !.steps[1].vres = "unsafe"],
                                                 SafetyMsg(Reason)), SafetyMsg(Reason)),
              validation |-> validation, executed |-> FALSE,
              result |-> Rejected({})]
        ELSE LET called == CallExecutor([running EXCEPT !.steps[1].vres = "safe"])
                 result == executeStep(step, context, env)
             IN  [task |-> IF result.threw
                           THEN FailedTask(StepFailed(called, ExecErr), ExecErr)
                           ELSE CompletedTask(StepCompleted(called, result.kind)),
                  validation |-> validation, executed |-> TRUE,
                  result |-> result]

StepCalls ==
    { [fn |-> "runStep", args |-> <<step, context, env>>, out |-> <<>>] :
        step \in FileSteps \cup OtherSteps, context \in StepContexts,
        env \in StepEnvironments }

InitStep ==
    /\ tasks = <<>>
    /\ active = {}
    /\ store = <<>>
    /\ history = LoadHistory(store)
    /\ ret = NoCall
    /\ disposed = FALSE
    /\ limit = MaxTasks
    /\ probe \in StepCalls

RunStep ==
    /\ probe.fn = "runStep"
    /\ probe.out = <<>>
    /\ probe' = [probe EXCEPT !.out = <<runStep(probe.args[1], probe.args[2], probe.args[3])>>]
    /\ UNCHANGED <<tasks, active, history, store, ret, disposed, limit>>

NextStep == RunStep

SpecStep == InitStep /\ [][NextStep]_vars

----------------------------------------------------------------------------
(* Properties *)

Done(id) == tasks[id].pc = "done"
Steps(id) == tasks[id].steps
HistCount(id) == Cardinality({k \in 1..Len(history) : history[k].taskId = id})
Rec(id) == history[CHOOSE k \in 1..Len(history) : history[k].taskId = id]

\* C1: executeStep is called for a step only after validateStep answered
\* safe=true for that step; when validateStep answers safe=false the executor
\* is not called for the step and no later step of the task is validated or
\* executed.
C1ExecutorOnlyAfterSafe ==
    \A id \in Ids : \A k \in 1..Len(Steps(id)) :
        /\ Steps(id)[k].ecalls > 0 => Steps(id)[k].vres = "safe"
        /\ Steps(id)[k].vres = "unsafe" =>
             /\ Steps(id)[k].ecalls = 0
             /\ \A j \in (k + 1)..Len(Steps(id)) :
                    Steps(id)[j].vcalls = 0 /\ Steps(id)[j].ecalls = 0

C1Witness ==
    \E id \in Ids :
        /\ Done(id)
        /\ Len(Steps(id)) = 2
        /\ Steps(id)[1].vres = "unsafe"
        /\ Steps(id)[2].vcalls = 0

\* C2 (as claimed): when executeStep throws for step i, step i is 'failed' with
\* the thrown message, every later step is 'pending' and was never validated
\* or executed, the task is 'failed' and its TaskResult has success=false.
C2ExecutorThrowAborts ==
    \A id \in Ids : \A k \in 1..Len(Steps(id)) :
        Steps(id)[k].eres = "threw" =>
            /\ Steps(id)[k].status = "failed"
            /\ Steps(id)[k].error = ExecErr
            /\ \A j \in (k + 1)..Len(Steps(id)) :
                   /\ Steps(id)[j].status = "pending"
                   /\ Steps(id)[j].vcalls = 0
                   /\ Steps(id)[j].ecalls = 0
            /\ tasks[id].status = "failed"
            /\ InHistory(id) => ~Rec(id).success

\* C3 (as claimed): a run whose cancellation was seen at the top of the loop
\* ends with the steps before the loop index 'completed' with their results,
\* the others 'pending', and the task status 'cancelled'.
C3CancelledStatusKept ==
    \A id \in Ids :
        ( /\ Done(id)
          /\ tasks[id].cancelled
          /\ tasks[id].rejErr = CancelMsg
          /\ \A k \in 1..Len(Steps(id)) : Steps(id)[k].init = "pending" )
        => /\ \A k \in 1..Len(Steps(id)) :
                IF k < tasks[id].i
                THEN Steps(id)[k].status = "completed" /\ Steps(id)[k].result # None
                ELSE Steps(id)[k].status = "pending"
           /\ tasks[id].status = "cancelled"

\* C4: cancelTask(id) returns true exactly when id is active; it then marks
\* the task 'cancelled' and removes the id from the active set, leaving other
\* tasks and history alone; otherwise it returns false and changes nothing.
\* After a true return the id is not active, so a second call returns false.
C4CancelTaskContract ==
    /\ [](ret.value = "true" => ret.id \notin active)
    /\ [][ret'.value \in {"true", "false"} =>
            /\ (ret'.value = "true") <=> (ret'.id \in active)
            /\ ret'.id \in active =>
                 /\ tasks'[ret'.id].status = "cancelled"
                 /\ active' = active \ {ret'.id}
                 /\ \A o \in Ids \ {ret'.id} : tasks'[o] = tasks[o]
                 /\ Len(tasks') = Len(tasks)
                 /\ UNCHANGED <<history, store>>
            /\ ret'.id \notin active => UNCHANGED <<tasks, active, history, store>>
       ]_vars

C4Witness ==
    \E id \in Ids :
        /\ tasks[id].cancelled
        /\ ret = [id |-> id, value |-> "false"]

\* C5 (as claimed): once cancelTask(id) has returned true, a run of a plan
\* with steps, whose step in flight does not fail, ends rejected with
\* 'Task cancelled by user'.
C5CancelEndsRun ==
    \A id \in Ids :
        ( /\ Done(id)
          /\ tasks[id].cancelled
          /\ Len(Steps(id)) > 0
          /\ tasks[id].rejErr \notin {CtxErr, PlanErr, ValErr, ExecErr, SafetyMsg(Reason)} )
        => tasks[id].outcome = "rejected" /\ tasks[id].rejErr = CancelMsg

\* C6 (as claimed): a step's status only moves pending -> running ->
\* completed | failed.
StepMove(a, b) ==
    \/ a = b
    \/ a = "pending" /\ b = "running"
    \/ a = "running" /\ b \in {"completed", "failed"}

C6StepStatusMonotonic ==
    [][\A id \in Ids : \A k \in 1..Len(Steps(id)) :
          k <= Len(tasks'[id].steps) =>
              StepMove(Steps(id)[k].status, tasks'[id].steps[k].status)]_vars

\* C7: history never holds more than MaxHistory records, and a push appends
\* the record at the end, evicting exactly the oldest one when the history
\* was full and keeping the order of the others.
C7HistoryBounded ==
    /\ [](Len(history) <= MaxHistory)
    /\ [][(history' # history /\ history' # <<>>) =>
            IF Len(history) = MaxHistory
            THEN history' = Append(Tail(history), history'[Len(history')])
            ELSE history' = Append(history, history'[Len(history')])]_vars

C7Witness ==
    /\ Len(history) = MaxHistory
    /\ history[MaxHistory].taskId = 1
    /\ history[1] = OldResult(2)
    /\ \A k \in 1..Len(history) : history[k] # OldResult(1)

\* C8 (as claimed): every created id is in exactly one of the active set and
\* history.
C8ExactlyOne ==
    \A id \in Ids : (id \in active) # InHistory(id)

\* C8 (amended): an id is never in the active set and in history at once and
\* never twice in history; it is active from its creation until its run ends
\* or cancelTask or dispose removes it, and in history from the end of its
\* run on (until dispose clears the history or the record is evicted).
C8NeverBoth ==
    \A id \in Ids :
        /\ ~(id \in active /\ InHistory(id))
        /\ HistCount(id) <= 1
        /\ (~Done(id) /\ ~tasks[id].cancelled /\ ~disposed) => id \in active
        /\ ~Done(id) => ~InHistory(id)
        /\ (Done(id) /\ ~disposed /\ Len(tasks) <= MaxHistory) => InHistory(id)

C8Witness ==
    \E id \in Ids :
        /\ tasks[id].cancelled
        /\ ~Done(id)
        /\ id \notin active
        /\ ~InHistory(id)

\* C9: the step that ends a run pushes one TaskResult with the task's id to
\* history and leaves the id out of the active set; a run that has not ended
\* has no record, no id has two, and after the end getTaskById(id) is
\* undefined for good.
C9TerminalResultPushed ==
    /\ [](\A id \in Ids :
            /\ Done(id) => id \notin active /\ getTaskById(id) = <<>>
            /\ ~Done(id) => ~InHistory(id)
            /\ HistCount(id) <= 1)
    /\ [][\A id \in Ids :
            /\ (~Done(id) /\ tasks'[id].pc = "done") =>
                 /\ Len(history') > 0
                 /\ history'[Len(history')].taskId = id
                 /\ history'[Len(history')].success = (tasks'[id].outcome = "returned")
                 /\ \/ history' = Append(history, history'[Len(history')])
                    \/ history' = Append(Tail(history), history'[Len(history')])
                 /\ id \notin active'
            /\ Done(id) => tasks'[id] = tasks[id]]_vars

C9Witness ==
    \E id \in Ids :
        /\ Done(id)
        /\ tasks[id].rejErr = CancelMsg
        /\ InHistory(id)
        /\ Rec(id).error = CancelMsg
        /\ getTaskById(id) = <<>>

\* C10 (as claimed): when a task fails because a step was blocked by the
\* safety gate or threw in the executor, that step is 'failed' with an error
\* message, and the same message is the task's error, the TaskResult's error
\* and the error the call is rejected with.
C10ErrorAttached ==
    \A id \in Ids : \A k \in 1..Len(Steps(id)) :
        (Steps(id)[k].vres = "unsafe" \/ Steps(id)[k].eres = "threw") =>
            /\ Steps(id)[k].status = "failed"
            /\ Steps(id)[k].error # None
            /\ tasks[id].error = Steps(id)[k].error
            /\ tasks[id].rejErr = Steps(id)[k].error
            /\ InHistory(id) => Rec(id).error = Steps(id)[k].error

----------------------------------------------------------------------------
(* Properties of the planner (under SpecPlanner) *)

PlanType == probe.args[1]
PlanResponse == probe.args[2]
PlanCalled == probe.fn = "createPlan" /\ probe.out # <<>>
PlanOut == probe.out[1]

\* C11 (as claimed): when the LLM response holds no JSON object, or parses to
\* a plan whose steps array is empty, createPlan returns the default plan of
\* the task type, never a plan with zero steps, and the plan's
\* estimatedDuration is 60 times its number of steps.
C11DefaultOnEmptyPlan ==
    ( /\ PlanCalled
      /\ PlanResponse.kind = "text"
      /\ \/ PlanResponse.json = "none"
         \/ /\ PlanResponse.json = "object"
            /\ PlanResponse.steps = "array"
            /\ PlanResponse.items = <<>> )
    => /\ ~PlanOut.threw
       /\ PlanOut.steps = createDefaultPlan(PlanType).steps
       /\ Len(PlanOut.steps) > 0
       /\ PlanOut.estimatedDuration = 60 * Len(PlanOut.steps)

\* C12: however the planner's LLM call settles short of a steps array (it
\* throws, returns text without JSON, returns malformed JSON, or returns JSON
\* whose steps is missing or not an array), createPlan does not throw and
\* returns the default plan of the task type; no run of the manager is
\* rejected because of planning.
C12PlannerRecovers ==
    /\ ( /\ PlanCalled
         /\ \/ PlanResponse.kind = "throws"
            \/ PlanResponse.json \in {"none", "malformed"}
            \/ PlanResponse.steps \in {"missing", "notArray"} )
       => /\ ~PlanOut.threw
          /\ PlanOut = createDefaultPlan(PlanType)
          /\ Len(PlanOut.steps) = Len(DefaultStepTypes(PlanType))
          /\ \A k \in 1..Len(PlanOut.steps) :
                 PlanOut.steps[k] = PlanStep(StepId(k), DefaultStepTypes(PlanType)[k])
    /\ PlanCalled => ~PlanOut.threw
    /\ \A id \in 1..Len(tasks) : tasks[id].rejErr # PlanErr /\ tasks[id].error # PlanErr

C12Witness ==
    /\ PlanCalled
    /\ PlanType = "implement"
    /\ PlanResponse.kind = "throws"
    /\ Len(PlanOut.steps) = 5
    /\ PlanOut.estimatedDuration = 300

----------------------------------------------------------------------------
(* Properties of the validator (under SpecValidator) *)

ValCalled == probe.fn = "validateStep" /\ probe.out # <<>>
ValStep == probe.args[1]
ValContext == probe.args[2]
Validation == probe.out[1]

\* (b) of C13: a file_operation delete / replace on a path holding a
\* sensitive entry; (c): a file path not prefixed by the workspace root
SensitiveCase ==
    /\ ValStep.type = "file_operation"
    /\ ValStep.parameters.operation \in {"delete", "replace"}
    /\ \E sensitive \in sensitiveFiles : includes(ValStep.parameters.filePath, sensitive)

BoundaryCase ==
    /\ ValContext.workspaceRoot # <<>>
    /\ ValStep.parameters.filePath # <<>>
    /\ ~startsWith(ValStep.parameters.filePath, ValContext.workspaceRoot)

AdvisoryCase ==
    \/ ValContext.hasUncommittedChanges /\ ValStep.type = "file_operation"
    \/ ValStep.type = "file_operation" /\ ValStep.parameters.contentLength > 1000000
    \/ /\ ValStep.type = "terminal_command"
       /\ includes(ValStep.parameters.command, <<"*", "*">>)

\* C13 (as claimed): validateStep returns safe=false only for (a) a
\* terminal_command whose command contains a dangerous-operation entry, (b)
\* and (c); for every other step and context it returns safe=true.
C13BlockedOnlyInThreeCases ==
    (ValCalled /\ ~Validation.safe) =>
        \/ /\ ValStep.type = "terminal_command"
           /\ \E op \in dangerousOperations : includes(ValStep.parameters.command, op)
        \/ SensitiveCase
        \/ BoundaryCase

\* C13 (amended): validateStep returns safe=false only for (a) a
\* terminal_command whose command, lower-cased, contains a dangerous-operation
\* entry, (b) and (c); for every other step and context, uncommitted changes,
\* content over 1 MB and glob patterns included, it returns safe=true without
\* a reason and only adds a warning with its recommendation.
C13BlockedOnlyInThreeCasesLowered ==
    ValCalled =>
        /\ ~Validation.safe =>
             \/ /\ ValStep.type = "terminal_command"
                /\ \E op \in dangerousOperations :
                       includes(toLowerCase(ValStep.parameters.command), op)
             \/ SensitiveCase
             \/ BoundaryCase
        /\ Validation.safe => Validation.reason = <<>>
        /\ (Validation.safe /\ AdvisoryCase) => Validation.warnings # <<>>
        /\ Len(Validation.recommendations) = Len(Validation.warnings)

C13Witness ==
    /\ ValCalled
    /\ ValStep.type = "file_operation"
    /\ ValContext.hasUncommittedChanges
    /\ ValStep.parameters.contentLength > 1000000
    /\ Validation.safe
    /\ Len(Validation.warnings) = 2

\* C14 (as claimed): for a terminal_command whose command contains a
\* dangerous-operation entry, validateStep returns safe=false with a reason
\* that names the dangerous operation, whatever the context.
C14DangerousCommandBlocked ==
    ( /\ ValCalled
      /\ ValStep.type = "terminal_command"
      /\ \E op \in dangerousOperations : includes(ValStep.parameters.command, op) )
    => /\ ~Validation.safe
       /\ \E op \in dangerousOperations : includes(Validation.reason, op)

\* C15: for a file_operation, validateStep returns safe=false when the
\* operation is replace or delete and the path, written from the workspace
\* root, holds a sensitive entry (<workspaceRoot>/.env); it returns safe=true
\* when the operation is create and the path is a non-sensitive one under the
\* workspace root.
C15SensitiveFileBlocked ==
    ( /\ ValCalled
      /\ ValStep.type = "file_operation"
      /\ startsWith(ValStep.parameters.filePath, WorkspaceRoot \o <<"/">>)
      /\ UnderRoot(ValStep.parameters.filePath, WorkspaceRoot) )
    => /\ ( /\ ValStep.parameters.operation \in {"replace", "delete"}
            /\ \E sensitive \in sensitiveFiles :
                   includes(ValStep.parameters.filePath, sensitive) )
          => /\ ~Validation.safe
             /\ Validation.reason = SensitiveReason(ValStep)
       /\ ( /\ ValStep.parameters.operation = "create"
            /\ \A sensitive \in sensitiveFiles :
                   ~includes(ValStep.parameters.filePath, sensitive) )
          => Validation.safe

C15Witness ==
    /\ ValCalled
    /\ ValStep.type = "file_operation"
    /\ ValStep.parameters.filePath = WorkspaceRoot \o <<"/", ".env">>
    /\ ValStep.parameters.operation = "replace"
    /\ ValContext.workspaceRoot = WorkspaceRoot
    /\ ~Validation.safe

\* C16 (as claimed): with a workspace root, validateStep blocks a step for
\* boundary violation exactly when its file path resolves to a location
\* outside the workspace root; a path that resolves under the root, a
\* relative one included, is not blocked for boundary violation.
C16BoundaryByResolvedPath ==
    ( /\ ValCalled
      /\ ValContext.workspaceRoot # <<>>
      /\ ValStep.parameters.filePath # <<>> )
    => ( (~Validation.safe /\ Validation.reason = BoundaryReason(ValStep))
         <=> ~UnderRoot(ValStep.parameters.filePath, ValContext.workspaceRoot) )

\* C17: validateCodeGeneration and validateRefactoring return safe=true for
\* every input, whatever warnings and recommendations they add.
C17AdvisoryOnly ==
    (probe.fn \in {"validateCodeGeneration", "validateRefactoring"} /\ probe.out # <<>>)
    => /\ probe.out[1].safe
       /\ probe.out[1].reason = <<>>

C17Witness ==
    /\ probe.fn = "validateRefactoring"
    /\ probe.out # <<>>
    /\ Len(probe.out[1].warnings) = 2
    /\ probe.out[1].safe

----------------------------------------------------------------------------
(* Properties of retryTask, runCustomPlan and the task context (under Spec) *)

AllPending(id) == \A k \in 1..Len(Steps(id)) : Steps(id)[k].init = "pending"

ExecuteTaskStep(s) ==
    CASE s.eres = "returned" -> [status |-> "completed", error |-> None]
      [] s.eres = "threw" -> [status |-> "failed", error |-> ExecErr]
      [] s.vres = "unsafe" -> [status |-> "failed", error |-> SafetyMsg(Reason)]
      [] s.vres = "threw" -> [status |-> "failed", error |-> ValErr]
      [] s.vcalls > 0 -> [status |-> "running", error |-> None]
      [] OTHER -> [status |-> "pending", error |-> None]

\* C19 (as claimed): runCustomPlan never calls the planner, and for the same
\* (pending) steps and the same validator and executor outcomes it leaves the
\* step statuses, step errors, task status, history record and rejected error
\* that executeTask leaves.
C19SameLoopAsExecuteTask ==
    \A id \in Ids : AllPending(id) =>
        /\ tasks[id].kind = "custom" => tasks[id].pc # "plan"
        /\ \A k \in 1..Len(Steps(id)) :
               /\ Steps(id)[k].status = ExecuteTaskStep(Steps(id)[k]).status
               /\ Steps(id)[k].error = ExecuteTaskStep(Steps(id)[k]).error
        /\ (Done(id) /\ tasks[id].outcome = "rejected") =>
               /\ tasks[id].status = "failed"
               /\ tasks[id].error = tasks[id].rejErr
               /\ InHistory(id) => Rec(id).error = tasks[id].rejErr /\ ~Rec(id).success
        /\ (Done(id) /\ tasks[id].outcome = "returned") =>
               /\ tasks[id].status = "completed"
               /\ InHistory(id) => Rec(id).success

\* C20 (as claimed): for every task the context analyzer is invoked once,
\* the task's context is assigned exactly once, before the first step is
\* marked running, and that value is passed to validateStep and executeStep
\* for every step.
C20ContextOnce ==
    \A id \in Ids :
        /\ tasks[id].analyzeCalls = 1
        /\ tasks[id].ctxSet <= 1
        /\ Done(id) => tasks[id].ctxSet = 1
        /\ \A k \in 1..Len(Steps(id)) :
               /\ Steps(id)[k].vcalls > 0 =>
                      tasks[id].ctxSet = 1 /\ Steps(id)[k].vctx = tasks[id].context
               /\ Steps(id)[k].ecalls > 0 => Steps(id)[k].ectx = tasks[id].context

\* C20 (amended): for every task the context analyzer is invoked once; the
\* task's context is assigned at most once: exactly once when the analysis
\* returns, before the first step is marked running, and never when the
\* analysis throws (the run then fails before any step); the assigned value
\* is the one passed to validateStep and executeStep for every step.
C20ContextAtMostOnce ==
    \A id \in Ids :
        /\ tasks[id].analyzeCalls = 1
        /\ tasks[id].ctxSet <= 1
        /\ tasks[id].ctxSet = 1 <=> tasks[id].context = AnalyzedContext
        /\ tasks[id].ctxSet = 0 <=> tasks[id].context = None
        /\ tasks[id].ctxSet = 0 <=> (tasks[id].pc = "analyze" \/ tasks[id].rejErr = CtxErr)
        /\ \A k \in 1..Len(Steps(id)) :
               /\ Steps(id)[k].vcalls <= 1 /\ Steps(id)[k].ecalls <= 1
               /\ Steps(id)[k].vcalls > 0 =>
                      /\ tasks[id].ctxSet = 1
                      /\ Steps(id)[k].vctx = tasks[id].context
               /\ Steps(id)[k].ecalls > 0 => Steps(id)[k].ectx = tasks[id].context
               /\ Steps(id)[k].vcalls = 0 =>
                      Steps(id)[k].status = Steps(id)[k].init

C20Witness ==
    \E id \in Ids :
        /\ Done(id)
        /\ Len(Steps(id)) = 2
        /\ \A k \in 1..2 : Steps(id)[k].ecalls = 1 /\ Steps(id)[k].ectx = AnalyzedContext
        /\ tasks[id].ctxSet = 1

----------------------------------------------------------------------------
(* Properties of the step loop, the history store and the task lifecycle   *)
(* (under Spec)                                                            *)

\* C21 (as claimed): at most one step of a task is 'running', a step is
\* started only after all steps before it completed, and the step statuses
\* of a task always read: 'completed' steps, then at most one 'running' or
\* 'failed' step, then only 'pending' steps.
C21StepsSequential ==
    \A id \in Ids :
        /\ Cardinality({k \in 1..Len(Steps(id)) : Steps(id)[k].status = "running"}) <= 1
        /\ \A k \in 1..Len(Steps(id)) : Steps(id)[k].vcalls > 0 =>
               \A j \in 1..(k - 1) : Steps(id)[j].status = "completed" /\ Steps(id)[j].eres = "returned"
        /\ \E c \in 0..Len(Steps(id)) :
               /\ \A k \in 1..c : Steps(id)[k].status = "completed"
               /\ \A k \in (c + 2)..Len(Steps(id)) : Steps(id)[k].status = "pending"

\* C23 (as claimed): whenever a run is suspended or has returned, every value
\* assigned to the task's status, and every progress update, has been followed
\* by a lifecycle-change notification (updateStatusBar).
C23NotifiedBeforeSuspend ==
    \A id \in Ids : tasks[id].unnotified = {}

----------------------------------------------------------------------------
(* Tasks running at the same time (under SpecConcurrent) *)

\* C26: a step of the run of one task (a step completing, failing or being
\* blocked, the run ending) and cancelTask on one task change no other task
\* and no other task's membership of the active set; a submitted task is
\* added to the active set and removes nothing from it; a run or a cancelTask
\* removes its own id; and when a run ends its task has exactly one history
\* record while the records of the other tasks stay as they are.
C26TasksIndependent ==
    [][ /\ \A id \in Ids : tasks'[id] # tasks[id] =>
               /\ \A o \in Ids \ {id} :
                      /\ tasks'[o] = tasks[o]
                      /\ (o \in active') = (o \in active)
                      /\ HistCount(o)' = HistCount(o)
               /\ id \in active' => id \in active
               /\ (tasks'[id].pc = "done" \/ tasks'[id].status = "cancelled") => id \notin active'
               /\ (tasks'[id].pc = "done") => HistCount(id)' = 1
        /\ Len(tasks') > Len(tasks) =>
               /\ active' = active \cup {Len(tasks')}
               /\ \A o \in Ids : tasks'[o] = tasks[o]
      ]_vars

\* two tasks ran at the same time: the run of one was blocked by the
\* validator after its first step and has its record, the other one is still
\* active between two of its steps, untouched
C26Witness ==
    \E a \in Ids, b \in Ids :
        /\ a # b
        /\ Done(a)
        /\ Len(Steps(a)) = 2
        /\ Steps(a)[2].vres = "unsafe"
        /\ HistCount(a) = 1
        /\ b \in active
        /\ tasks[b].status = "executing"
        /\ tasks[b].pc = "validate"
        /\ tasks[b].i = 2
        /\ Steps(b)[1].status = "completed"
        /\ HistCount(b) = 0

----------------------------------------------------------------------------
(* Properties of the task lifecycle, results and progress (under Spec) *)

StatusOrder == <<"planning", "analyzing", "planning", "executing">>

\* C27: the values a run of executeTask assigns to task.status are 'planning',
\* 'analyzing', 'planning', 'executing' in that order, followed at the end of
\* the run by 'completed' (only after 'executing') or 'failed'; the planner is
\* called only after the analyzer returned; a step is marked running only
\* after 'executing' was assigned; a finished run leaves the status
\* 'completed' or 'failed'.
C27StatusOrder ==
    \A id \in Ids : tasks[id].kind = "execute" =>
        /\ \E n \in 2..4 :
               \/ ~Done(id) /\ tasks[id].trail = SubSeq(StatusOrder, 1, n)
               \/ Done(id) /\ tasks[id].trail = Append(SubSeq(StatusOrder, 1, n), "failed")
               \/ Done(id) /\ n = 4 /\ tasks[id].trail = Append(StatusOrder, "completed")
        /\ tasks[id].planCalls > 0 =>
               /\ tasks[id].analyzeCalls = 1
               /\ tasks[id].ctxSet = 1
               /\ Len(tasks[id].trail) >= 3
        /\ \A k \in 1..Len(Steps(id)) :
               Steps(id)[k].status # "pending" => Len(tasks[id].trail) >= 4
        /\ Done(id) =>
               /\ tasks[id].status \in {"completed", "failed"}
               /\ tasks[id].status = tasks[id].trail[Len(tasks[id].trail)]

\* a planned task of two steps ran to its end
C27Witness ==
    \E id \in Ids :
        /\ tasks[id].kind = "execute"
        /\ Len(Steps(id)) = 2
        /\ tasks[id].trail = Append(StatusOrder, "completed")
        /\ tasks[id].status = "completed"

\* C28: when a run returned its TaskResult (success = true), the task status
\* is 'completed', every step of the task is 'completed', and the results
\* collected for the TaskResult are, in step order, the results stored on the
\* steps, one per step.
C28SuccessMeansAllCompleted ==
    \A id \in Ids :
        (tasks[id].outcome = "returned" \/ (InHistory(id) /\ Rec(id).success)) =>
            /\ tasks[id].status = "completed"
            /\ \A k \in 1..Len(Steps(id)) : Steps(id)[k].status = "completed"
            /\ tasks[id].results = [k \in 1..Len(Steps(id)) |-> Steps(id)[k].result]
            /\ InHistory(id) => Rec(id).success /\ Rec(id).nresults = Len(Steps(id))

\* a two-step task succeeded: its record holds the two results in order
C28Witness ==
    \E id \in Ids :
        /\ InHistory(id)
        /\ Rec(id).success
        /\ Rec(id).nresults = 2
        /\ tasks[id].results = <<StepResult(1), StepResult(2)>>
        /\ Steps(id)[2].result = StepResult(2)

\* the steps of the task whose executeStep returned in this run
CompletedSteps(id) == {k \in 1..Len(Steps(id)) : Steps(id)[k].eres = "returned"}

\* C29: once k steps of an n-step task have completed, currentStep is k and
\* progress is k/n*100 (as the fraction <<k*100, n>>); progress is at most
\* 100, is 100 exactly when all n steps have completed, and no step of the
\* program decreases it.
C29Progress ==
    /\ [](\A id \in Ids :
             LET n == Len(Steps(id))
                 k == Cardinality(CompletedSteps(id))
             IN  /\ tasks[id].currentStep = k
                 /\ k > 0 => tasks[id].progress = <<k * 100, n>>
                 /\ tasks[id].progress[1] <= 100 * tasks[id].progress[2]
                 /\ n > 0 => ((tasks[id].progress[1] = 100 * tasks[id].progress[2]) <=> (k = n)))
    /\ [][\A id \in Ids :
             tasks'[id].progress[1] * tasks[id].progress[2]
                 >= tasks[id].progress[1] * tasks'[id].progress[2]]_vars

\* the first of two steps has completed and the second is under way: 50%
C29Witness ==
    \E id \in Ids :
        /\ Len(Steps(id)) = 2
        /\ CompletedSteps(id) = {1}
        /\ tasks[id].pc = "execute"
        /\ tasks[id].currentStep = 1
        /\ tasks[id].progress = <<100, 2>>

----------------------------------------------------------------------------
(* Properties of the executor (under SpecExecutor) *)

ExecCalled == probe.fn = "executeFileOperation" /\ probe.out # <<>>
ExecParameters == probe.args[1]
ExecContext == probe.args[2]
ExecEnv == probe.args[3]
ExecOut == probe.out[1]

\* the target of a path: itself when absolute, else under the workspace root
TargetOf(path) ==
    IF isAbsolute(path) THEN path ELSE join(ExecContext.workspaceRoot, path)

\* C30: the path of a file_operation step is parameters.filePath if present,
\* else the context's current file if present, else what the user entered at
\* the prompt; with all three absent the step throws the missing-file-path
\* error and the file system is as before.  With an absent operation the
\* operation is 'replace' if the target exists and 'create' otherwise.
C30PathAndOperationFallback ==
    ExecCalled =>
        /\ ExecParameters.filePath # <<>> =>
               ExecOut.resolvedPath = ExecParameters.filePath /\ ~ExecOut.prompted
        /\ (ExecParameters.filePath = <<>> /\ ExecContext.currentFile # <<>>) =>
               ExecOut.resolvedPath = ExecContext.currentFile /\ ~ExecOut.prompted
        /\ (ExecParameters.filePath = <<>> /\ ExecContext.currentFile = <<>>) =>
               ExecOut.resolvedPath = ExecEnv.input /\ ExecOut.prompted
        /\ ExecOut.resolvedPath # <<>> => ExecOut.target = TargetOf(ExecOut.resolvedPath)
        /\ (ExecParameters.filePath = <<>> /\ ExecContext.currentFile = <<>> /\ ExecEnv.input = <<>>) <=>
               (ExecOut.threw /\ ExecOut.error = MissingPathMsg)
        /\ (ExecOut.threw /\ ExecOut.error = MissingPathMsg) =>
               ExecOut.after = ExecOut.before /\ ExecOut.operation = None
        /\ (ExecParameters.operation = "" /\ ExecOut.resolvedPath # <<>>) =>
               ExecOut.op = IF ExecOut.target \in ExecEnv.files THEN "replace" ELSE "create"
        /\ (ExecParameters.operation # "" /\ ExecOut.resolvedPath # <<>>) =>
               ExecOut.op = ExecParameters.operation

\* no filePath, a current file that exists, no operation: the current file
\* is replaced without the input box being shown
C30Witness ==
    /\ ExecCalled
    /\ ExecParameters.filePath = <<>>
    /\ ExecParameters.operation = ""
    /\ ExecContext.currentFile # <<>>
    /\ ExecEnv.input # <<>>
    /\ ExecOut.target = ExecContext.currentFile
    /\ ExecOut.op = "replace"
    /\ ExecOut.operation = "replaced"

\* C22 (as claimed): with confirmChanges enabled, a modify or replace of an
\* existing file changes the file only after the user answered 'Yes' to the
\* question asked about the displayed diff; when the user answers 'No' or
\* dismisses the question, the call returns { cancelled: true } and the file
\* is as before.
C22WriteOnlyAfterApproval ==
    (ExecCalled /\ ExecEnv.confirmChanges /\ ExecOut.op \in {"modify", "replace"}
        /\ ExecOut.before.exists) =>
        /\ ExecOut.diffShown
        /\ ExecOut.after # ExecOut.before => ExecOut.asked /\ ExecEnv.proceed = "Yes"
        /\ (ExecOut.asked /\ ExecEnv.proceed # "Yes") =>
               ExecOut.cancelled /\ ExecOut.after = ExecOut.before

----------------------------------------------------------------------------
(* Properties of a step going through the validator and the executor       *)
(* (under SpecStep)                                                        *)

StepCalled == probe.fn = "runStep" /\ probe.out # <<>>
TheStep == probe.args[1]
StepContext == probe.args[2]
StepEnv == probe.args[3]
StepOut == probe.out[1]

\* C32: for a step whose type is none of the known kinds, executeStep has no
\* side effect, returns the result of the analysis placeholder and does not
\* throw; the loop marks the step completed, collects the result, advances
\* the progress and goes on.
C32UnknownTypeDegrades ==
    (StepCalled /\ TheStep.type \notin KnownStepTypes /\ StepOut.executed) =>
        /\ ~StepOut.result.threw
        /\ StepOut.result.kind = AnalysisResult
        /\ StepOut.result.effects = {}
        /\ StepOut.result = executeAnalysis(TheStep, StepContext)
        /\ StepOut.task.steps[1].status = "completed"
        /\ StepOut.task.steps[1].result = AnalysisResult
        /\ StepOut.task.results = <<AnalysisResult>>
        /\ StepOut.task.i = 2
        /\ StepOut.task.currentStep = 1
        /\ StepOut.task.status # "failed"

\* a step of type 'refactor' went through the loop body
C32Witness ==
    /\ StepCalled
    /\ TheStep.type = "refactor"
    /\ StepOut.executed
    /\ StepOut.task.steps[1].status = "completed"
    /\ StepOut.task.steps[1].result = AnalysisResult

Sensitive(path) == \E sensitive \in sensitiveFiles : includes(path, sensitive)

\* C33 (as claimed): for a file_operation step that validateStep let pass,
\* the path the executor resolved lies under the workspace root, and the
\* executor did not delete or replace a sensitive file, also when the path
\* came from the context's current file or the operation was inferred.
C33GateJudgesWhatExecutorActsOn ==
    (StepCalled /\ TheStep.type = "file_operation" /\ StepOut.validation.safe
        /\ StepOut.executed /\ StepOut.result.file.target # <<>>) =>
        /\ UnderRoot(StepOut.result.file.target, StepContext.workspaceRoot)
        /\ ~(/\ Sensitive(StepOut.result.file.target)
             /\ StepOut.result.file.operation \in {"deleted", "replaced"})

----------------------------------------------------------------------------
(* Properties of cancellation, terminal statuses and termination (under    *)
(* Spec and SpecFair)                                                      *)

\* C34 (as claimed): the run of a task for which cancelTask returned true
\* never ends as a success: it is rejected, and its TaskResult has
\* success=false, with the cancellation error unless the call in flight
\* itself failed.
C34CancelledNeverSucceeds ==
    \A id \in Ids :
        (Done(id) /\ tasks[id].cancelled) =>
            /\ tasks[id].outcome = "rejected"
            /\ tasks[id].rejErr \notin {CtxErr, PlanErr, ValErr, ExecErr, SafetyMsg(Reason)} =>
                   tasks[id].rejErr = CancelMsg
            /\ InHistory(id) => ~Rec(id).success

\* C35 (as claimed): once the status of a task is 'completed', 'failed' or
\* 'cancelled', no step of the program changes it.
C35TerminalStatusAbsorbing ==
    [][\A id \in Ids :
           tasks[id].status \in {"completed", "failed", "cancelled"} =>
               tasks'[id].status = tasks[id].status]_vars

\* C36: whenever an observer can look (between two stretches of any run),
\* every task getActiveTasks returns has status 'planning', 'analyzing' or
\* 'executing'; a task that is 'completed', 'failed' or 'cancelled' is
\* returned neither by getActiveTasks nor by getTaskById, and the status bar
\* counts every active task as running.
C36ActiveTasksNotTerminal ==
    /\ \A id \in DOMAIN getActiveTasks :
           getActiveTasks[id].status \in {"planning", "analyzing", "executing"}
    /\ \A id \in Ids :
           tasks[id].status \in {"completed", "failed", "cancelled"} =>
               /\ id \notin DOMAIN getActiveTasks
               /\ getTaskById(id) = <<>>
    /\ StatusBarText = IF active = {} THEN <<"idle", 0>>
                       ELSE <<"active", Cardinality(active)>>

\* a task was cancelled and its run is still in flight: the task is not
\* among the active ones
C36Witness ==
    \E id \in Ids :
        /\ tasks[id].status = "cancelled"
        /\ ~Done(id)
        /\ getTaskById(id) = <<>>
        /\ StatusBarText = <<"idle", 0>>

\* C37: when every call a run waits on eventually returns or fails, every
\* submitted task, cancelled or not, eventually has its run ended, is out of
\* the active set and has its TaskResult in history.
C37EveryRunEnds ==
    \A id \in 1..MaxTasks :
        (id \in Ids /\ ~Done(id))
            ~> (id \in Ids /\ Done(id) /\ id \notin active /\ InHistory(id))

\* a custom plan was cancelled, and its run ended at the next loop check
C37Witness ==
    \E id \in Ids :
        /\ tasks[id].kind = "custom"
        /\ tasks[id].cancelled
        /\ Done(id)
        /\ tasks[id].rejErr = CancelMsg
        /\ id \notin active
        /\ InHistory(id)

\* C38 (as claimed): when the user declines the confirmation of a modify or
\* replace (executeStep returns { cancelled: true }), the step is not marked
\* 'completed', the progress is not advanced for it and the task does not go
\* on to end as a success.
C38DeclinedStepNotCompleted ==
    (StepCalled /\ StepOut.executed /\ StepOut.result.kind = "cancelled") =>
        /\ StepOut.result.file.after = StepOut.result.file.before
        /\ StepOut.task.steps[1].status # "completed"
        /\ StepOut.task.currentStep = 0
        /\ StepOut.task.outcome # "returned"

====
